---- MODULE Spec2Model ----
(***************************************************************************)
(* Model of assets/eip-6475/optional.py: the merkleized Optional[T] view.  *)
(* An instance is a view over an immutable binary tree of nodes: the root  *)
(* is a pair (contents child, length child).  Nodes live in a heap and are *)
(* named by their index, so that "the same node" and "a new node" differ.  *)
(***************************************************************************)
EXTENDS Integers, Sequences, FiniteSets, TLC

VARIABLES cls, heap, backing, stream, last, foreign

vars == <<cls, heap, backing, stream, last, foreign>>

(* ------------------------------ bounds -------------------------------- *)

\* Most nodes the heap may hold; every allocating action is guarded by it.
MaxNodes == 8

\* Largest byte scope a caller passes to deserialize.
MaxScope == 3

\* Largest length a caller-built backing mixes in.
MaxLength == 2

\* Navigation keys run from -MaxKey to MaxKey.
MaxKey == 2

(* ------------------------- element types (T) --------------------------- *)

\* uint256 is the type of the length mix-in; a chunk (a leaf's root) is as wide.
BYTES_PER_CHUNK == 32

Views == {"a", "b"}

\* The element types offered to Optional[...]: two basic unsigned integers
\* and one list type, whose minimum byte length is 0.
ElemTypes == {"uint8", "uint16", "List[uint8,1]"}

type_byte_length(T) == IF T = "uint8" THEN 1 ELSE IF T = "uint16" THEN 2 ELSE 0

\* A variable-length element type whose minimum byte length is not 0: a
\* list of at most 8 bits, serialized with a delimiting bit after the last.
VarElemTypes == {"Bitlist[8]"}

min_byte_length(T) ==
    IF T = "List[uint8,1]" THEN 0
    ELSE IF T \in VarElemTypes THEN 1
    ELSE type_byte_length(T)

is_fixed_byte_length(T) == T \in {"uint8", "uint16"}

\* issubclass(T, BasicView): T is a basic, packable type
is_basic_type(T) == T \in {"uint8", "uint16"}

\* isinstance(obj, C) for obj a class object: a class is an instance of its
\* metaclass, never of the classes it derives from.
isinstance_of_class_object(T, C) == C \in {"type", "object"}

\* The absent input (Python's None), raw inputs and inputs that are views.
NoneV == [view |-> FALSE, ty |-> "None", val |-> 0]

RawInputs == {[view |-> FALSE, ty |-> "int", val |-> n] : n \in {-1, 0, 256}}

ViewInputs == {[view |-> TRUE, ty |-> "uint8", val |-> 1],
               [view |-> TRUE, ty |-> "uint16", val |-> 256]}

Inputs == RawInputs \cup ViewInputs

\* Views of the variable-length type.  val is the list as its serialization
\* read as an integer: the bits, lowest first, and the delimiting bit above
\* them (1 is the empty list, 5 the list 1, 0).
VarViewInputs == {[view |-> TRUE, ty |-> "Bitlist[8]", val |-> n] : n \in {1, 5}}

\* The inputs that are views of T
ViewsOfType(T) == {v \in ViewInputs \cup VarViewInputs : v.ty = T}

\* An element type as the argument or the result of a recorded call
TypeArg(element_type) == [view |-> FALSE, ty |-> element_type, val |-> 0]

\* Navigation keys: integers, and the name of the presence flag
IntKey(n) == [view |-> FALSE, ty |-> "int", val |-> n]

IsSomeKey == [view |-> FALSE, ty |-> "str", val |-> 0]

Keys == {IntKey(n) : n \in (0 - MaxKey)..MaxKey} \cup {IsSomeKey}

\* A view of type T holding n: what coerce_view and get() return.
ViewOf(T, n) == [view |-> TRUE, ty |-> T, val |-> n]

\* Python's isinstance(v, elem_type) for an input value.
isinstance(v, T) == v.view /\ v.ty = T

\* uint.__new__: negative and too wide integers are rejected.
coerce_ok(T, v) == v.val >= 0 /\ v.val < 256 ^ type_byte_length(T)

coerce_view(T, v) == ViewOf(T, v.val)

(* ------------------------------ bytes ---------------------------------- *)

\* int.to_bytes(n, 'little'): byte i is (val // 256^(i-1)) % 256.  The
\* integers of the model are below 2^31, so the bytes above the fourth are 0.
encode_bytes(val, n) ==
    [i \in 1..n |-> IF i > 4 THEN 0 ELSE (val \div (256 ^ (i - 1))) % 256]

RECURSIVE decode_from(_, _, _)
\* int.from_bytes(b[i..top], 'little'): b[i] + 256 * (the bytes above it)
decode_from(b, i, top) ==
    IF i > top THEN 0 ELSE b[i] + 256 * decode_from(b, i + 1, top)

\* int.from_bytes(b, 'little'); the zero bytes above the highest nonzero one
\* add nothing and are not walked
decode_bytes(b) ==
    LET nonzero == {i \in 1..Len(b) : b[i] # 0}
        top == IF nonzero = {} THEN 0
               ELSE CHOOSE i \in nonzero : \A j \in nonzero : j <= i
    IN decode_from(b, 1, top)

\* bytes.ljust(32, b'\x00'): a value's bytes as a chunk
ljust(b) == b \o [i \in 1..(BYTES_PER_CHUNK - Len(b)) |-> 0]

\* b[0:n]
slice(b, n) == [i \in 1..(IF n < Len(b) THEN n ELSE Len(b)) |-> b[i]]

(* ------------------------------ nodes ---------------------------------- *)

RootNode(r) == [kind |-> "root", root |-> r, left |-> 0, right |-> 0]

PairNode(l, r) == [kind |-> "pair", root |-> <<>>, left |-> l, right |-> r]

\* zero_node(depth): the shared, cached zero node; it is node 1 of every heap.
\* contents_depth is get_depth(1) = 0, so depth 0 is the only depth asked for.
zero_node(depth) == 1

\* get_depth(elem_count)
RECURSIVE bit_length(_)
bit_length(n) == IF n = 0 THEN 0 ELSE 1 + bit_length(n \div 2)

get_depth(elem_count) == IF elem_count <= 1 THEN 0 ELSE bit_length(elem_count - 1)

\* remerkleable's own to_gindex, as MonoSubtreeView.get and .set use it
lib_to_gindex(i, depth) == 2 ^ depth + i

RECURSIVE getter(_, _, _)
\* Node.getter(target): walk from the root by the bits of the generalized index
getter(h, n, target) ==
    IF target = 1 THEN n
    ELSE LET up == getter(h, n, target \div 2)
         IN IF target % 2 = 0 THEN h[up].left ELSE h[up].right

\* The structure below a node, without node identities.
RECURSIVE Tree(_, _)
Tree(h, n) ==
    IF h[n].kind = "root" THEN <<"root", h[n].root>>
    ELSE <<"pair", Tree(h, h[n].left), Tree(h, h[n].right)>>

(* ---------------------- the module's namespace ------------------------ *)

\* The names optional.py binds at module level: its imports, T and Optional.
ModuleGlobals ==
    {"Any", "BinaryIO", "PyOptional", "TypeVar", "Type", "cast", "uint256",
     "MonoSubtreeView", "BasicView", "View", "ViewHook", "Gindex", "Node",
     "PairNode", "get_depth", "subtree_fill_to_contents", "zero_node", "T",
     "Optional"}

\* Looking a global name up at run time: an unbound one raises NameError.
name_bound(name) == name \in ModuleGlobals

(* --------------------------- specialization ---------------------------- *)

\* the check of __class_getitem__ never rejecting
invalid_element_type_never(element_type) == min_byte_length(element_type) < 0

\* Optional.__class_getitem__: the element type it refuses
invalid_element_type(element_type) == min_byte_length(element_type) = 0

NoCls == [elem |-> "none", packed |-> FALSE, contents_depth |-> 0, limit |-> 0]

\* Optional.__class_getitem__(element_type), past its min_byte_length check
SpecialOptionView(element_type) ==
    LET limit == 1
    IN [elem |-> element_type,
        packed |-> isinstance_of_class_object(element_type, "BasicView"),
        contents_depth |-> get_depth(limit),
        limit |-> limit]

tree_depth(c) == c.contents_depth + 1

(* ------------------- results of the heap-passing methods ---------------- *)

\* A method's outcome: the heap after it, the root it leaves the view with,
\* and the exception it raised ("none" when it returned).
Ok(h, root) == [heap |-> h, root |-> root, err |-> "none"]

Raise(h, root, e) == [heap |-> h, root |-> root, err |-> e]

\* basic_backing padding the bytes on the left instead of the right
basic_backing_rjust(v) ==
    RootNode([i \in 1..(BYTES_PER_CHUNK - type_byte_length(v.ty)) |-> 0]
             \o encode_bytes(v.val, type_byte_length(v.ty)))

\* View.get_backing() of a basic view: a fresh leaf holding its bytes
basic_backing(v) == RootNode(ljust(encode_bytes(v.val, type_byte_length(v.ty))))

\* uint256(n).get_backing()
uint256_backing(n) == RootNode(ljust(encode_bytes(n, BYTES_PER_CHUNK)))

\* The number of bits of a list of bits, and its bits as an integer
bits_length(v) == bit_length(v.val) - 1

bits_value(v) == v.val - 2 ^ bits_length(v)

\* View.get_backing() with the nodes put in the heap, the root last: a leaf
\* for a basic view, the pair (chunk of bits, length) for a list of bits
view_backing(h, v) ==
    IF is_fixed_byte_length(v.ty) THEN Append(h, basic_backing(v))
    ELSE LET h1 == Append(h, RootNode(ljust(encode_bytes(bits_value(v),
                                            (bits_length(v) + 7) \div 8))))
             h2 == Append(h1, uint256_backing(bits_length(v)))
         IN Append(h2, PairNode(Len(h1), Len(h2)))

\* MonoSubtreeView.views_into_chunks(views): the heap with the chunks added.
\* Packed, the views' bytes are joined and cut into chunks; unpacked, each
\* view gives its own backing.  With at most one view both give one chunk.
views_into_chunks(h, c, views) ==
    IF Len(views) = 0 THEN h
    ELSE IF c.packed
         THEN Append(h, RootNode(ljust(encode_bytes(views[1].val,
                                        type_byte_length(views[1].ty)))))
         ELSE view_backing(h, views[1])

\* subtree_fill_to_contents(nodes, depth), nodes given by their ids
subtree_fill_to_contents(nodes, depth) ==
    IF Len(nodes) = 0 THEN zero_node(depth) ELSE nodes[1]

(* ----------------------------- __new__ --------------------------------- *)

\* new_length counting one too many
new_length_off_by_one(input_views) == Len(input_views) + 1

\* new_length mixing in the limit instead of the count
new_length_limit(input_views) == 1

\* The length mixed in at construction: uint256(len(input_views)).
new_length(input_views) == Len(input_views)

\* conflicting looking at the backing alone
conflicting_ignoring_value(value, bk) == FALSE

\* Optional.__new__: a backing and a value are both given
conflicting(value, bk) == bk # 0 /\ value # NoneV

\* Optional.__new__(cls, value, backing); backing 0 stands for None.
Optional_new(h, c, value, bk) ==
    IF bk # 0
    THEN IF conflicting(value, bk) THEN Raise(h, 0, "Exception") ELSE Ok(h, bk)
    ELSE IF c.limit # 1 THEN Raise(h, 0, "AssertionError")
    ELSE IF value # NoneV /\ ~value.view /\ ~coerce_ok(c.elem, value)
    THEN Raise(h, 0, "ValueError")
    ELSE LET input_views ==
                 IF value = NoneV THEN <<>>
                 ELSE IF value.view THEN <<value>>
                 ELSE <<coerce_view(c.elem, value)>>
             h1 == views_into_chunks(h, c, input_views)
             input_nodes == IF Len(input_views) = 0 THEN <<>> ELSE <<Len(h1)>>
             contents == subtree_fill_to_contents(input_nodes, c.contents_depth)
             h2 == Append(h1, uint256_backing(new_length(input_views)))
             h3 == Append(h2, PairNode(contents, Len(h2)))
         IN Ok(h3, Len(h3))

\* Optional.default_node(), as a structure
default_node(h, c) ==
    <<"pair", Tree(h, zero_node(c.contents_depth)), Tree(h, zero_node(0))>>

(* ------------------------------ reads ---------------------------------- *)

\* Optional.length(): the right child decoded as a uint256
length(h, root) == decode_bytes(slice(h[h[root].right].root, BYTES_PER_CHUNK))

\* super_get reading one byte whatever the element's width
super_get_one_byte(h, c, root, i) ==
    LET node == getter(h, root, lib_to_gindex(i, tree_depth(c)))
    IN ViewOf(c.elem, decode_bytes(slice(h[node].root, 1)))

\* MonoSubtreeView.get(i): the element's view over its node.  A basic
\* element's bytes are the first bytes of its chunk; a list of bits has its
\* bits in the left leaf and its length in the right one.
super_get(h, c, root, i) ==
    LET node == getter(h, root, lib_to_gindex(i, tree_depth(c)))
    IN IF is_fixed_byte_length(c.elem)
       THEN ViewOf(c.elem,
                   decode_bytes(slice(h[node].root, type_byte_length(c.elem))))
       ELSE ViewOf(c.elem,
                   decode_bytes(slice(h[h[node].left].root, BYTES_PER_CHUNK))
                   + 2 ^ decode_bytes(slice(h[h[node].right].root, BYTES_PER_CHUNK)))

\* Optional.get()
Optional_get(h, c, root) ==
    IF length(h, root) = 0 THEN NoneV ELSE super_get(h, c, root, 0)

(* ------------------------- tree replacement ---------------------------- *)

\* Node.merkle_root(); the hash of a pair is kept symbolic
RECURSIVE merkle_root(_, _)
merkle_root(h, n) ==
    IF h[n].kind = "root" THEN h[n].root
    ELSE <<"H", merkle_root(h, h[n].left), merkle_root(h, h[n].right)>>

RECURSIVE setter(_, _, _, _)
\* Node.setter(target)(new): a copy of the path from the root to target, with
\* new at target; every node off the path is shared, none is changed.
setter(h, n, target, new) ==
    IF target = 1 THEN Ok(h, new)
    ELSE LET p == getter(h, n, target \div 2)
             pair == IF target % 2 = 0 THEN PairNode(new, h[p].right)
                     ELSE PairNode(h[p].left, new)
             h1 == Append(h, pair)
         IN setter(h1, n, target \div 2, Len(h1))

\* Node.summarize_into(target)(): the subtree at target replaced by one leaf
\* holding its merkle root
summarize_into(h, n, target) ==
    LET h1 == Append(h, RootNode(merkle_root(h, getter(h, n, target))))
    IN setter(h1, n, target, Len(h1))

\* Node.rebind_right(new)
rebind_right(h, n, new) ==
    LET h1 == Append(h, PairNode(h[n].left, new)) IN Ok(h1, Len(h1))

(* -------------------------------- set ---------------------------------- *)

\* super_set that also binds a fresh length leaf, as the absent branch does
super_set_rebinding_length(h, c, root, i, v) ==
    IF ~isinstance(v, c.elem) /\ ~coerce_ok(c.elem, v)
    THEN Raise(h, root, "ValueError")
    ELSE LET w == IF isinstance(v, c.elem) THEN v ELSE coerce_view(c.elem, v)
             h1 == Append(h, basic_backing(w))
             r1 == setter(h1, root, lib_to_gindex(i, tree_depth(c)), Len(h1))
             h3 == Append(r1.heap, uint256_backing(1))
         IN rebind_right(h3, r1.root, Len(h3))

\* super_set writing the new contents into the root node itself
super_set_in_place(h, c, root, i, v) ==
    IF ~isinstance(v, c.elem) /\ ~coerce_ok(c.elem, v)
    THEN Raise(h, root, "ValueError")
    ELSE LET w == IF isinstance(v, c.elem) THEN v ELSE coerce_view(c.elem, v)
             h1 == Append(h, basic_backing(w))
         IN Ok([h1 EXCEPT ![root] = PairNode(Len(h1), h[root].right)], root)

\* super_set storing v as it comes, without coercing it
super_set_unchecked(h, c, root, i, v) ==
    LET h1 == Append(h, basic_backing(ViewOf(c.elem, v.val)))
    IN setter(h1, root, lib_to_gindex(i, tree_depth(c)), Len(h1))

\* MonoSubtreeView.set(i, v), reached from Optional.set as super().set(0, v):
\* coerce v, then replace position i through the setter; the view is left
\* with the new root.
super_set(h, c, root, i, v) ==
    IF ~isinstance(v, c.elem) /\ ~coerce_ok(c.elem, v)
    THEN Raise(h, root, "ValueError")
    ELSE LET w == IF isinstance(v, c.elem) THEN v ELSE coerce_view(c.elem, v)
             target == lib_to_gindex(i, tree_depth(c))
             chunk == h[getter(h, root, target)].root
             n == type_byte_length(c.elem)
             leaf == IF c.packed
                     THEN RootNode([k \in 1..BYTES_PER_CHUNK |->
                              IF k <= n THEN encode_bytes(w.val, n)[k] ELSE chunk[k]])
                     ELSE basic_backing(w)
             h1 == Append(h, leaf)
         IN setter(h1, root, target, Len(h1))

\* clear_noop committing a freshly built empty root instead of returning
clear_noop_commit(h, root) ==
    LET h1 == Append(h, uint256_backing(0))
    IN rebind_right(h1, root, Len(h1))

\* Optional.set(None) on an absent instance: the early return
clear_noop(h, root) == Ok(h, root)

RECURSIVE summarize_target(_)
\* the upward walk of the clearing branch
summarize_target(target) ==
    IF target % 2 = 0 /\ target # 2 THEN summarize_target(target \div 2) ELSE target

RECURSIVE summarize_steps(_)
\* how many times the body of that walk runs
summarize_steps(target) ==
    IF target % 2 = 0 /\ target # 2 THEN 1 + summarize_steps(target \div 2) ELSE 0

\* Optional.set(None) on a present instance, from the setter on
clear_tail(h, c, root) ==
    LET i == 0
        target == lib_to_gindex(i, tree_depth(c))
        r1 == setter(h, root, target, zero_node(0))
        r2 == IF target % 2 = 0
              THEN summarize_into(r1.heap, r1.root, summarize_target(target))
              ELSE r1
        h3 == Append(r2.heap, uint256_backing(i))
    IN rebind_right(h3, r2.root, Len(h3))

\* Optional.set(v) on an absent instance, from the setter on
fill_tail(h, c, root, w) ==
    LET i == 0
        target == lib_to_gindex(i, tree_depth(c))
        h1 == Append(h, basic_backing(w))
        r1 == setter(h1, root, target, Len(h1))
        h3 == Append(r1.heap, uint256_backing(i + 1))
    IN rebind_right(h3, r1.root, Len(h3))

\* Optional.set(v).  to_gindex is looked up in the module's globals when the
\* line that uses it runs.
Optional_set(h, c, root, v) ==
    IF v = NoneV
    THEN IF length(h, root) = 0 THEN clear_noop(h, root)
         ELSE IF ~name_bound("to_gindex") THEN Raise(h, root, "NameError")
         ELSE clear_tail(h, c, root)
    ELSE IF length(h, root) = 1 THEN super_set(h, c, root, 0, v)
         ELSE IF ~isinstance(v, c.elem) /\ ~coerce_ok(c.elem, v)
         THEN Raise(h, root, "ValueError")
         ELSE IF ~name_bound("to_gindex") THEN Raise(h, root, "NameError")
         ELSE fill_tail(h, c, root,
                        IF isinstance(v, c.elem) THEN v ELSE coerce_view(c.elem, v))

(* --------------------------- serialization ----------------------------- *)

RECURSIVE reversed(_)
reversed(b) == IF Len(b) = 0 THEN <<>> ELSE Append(reversed(Tail(b)), Head(b))

\* elem_serialize writing the bytes big-endian
elem_serialize_big_endian(v) == reversed(encode_bytes(v.val, type_byte_length(v.ty)))

\* uint.serialize(stream): the bytes written
elem_serialize(v) == encode_bytes(v.val, type_byte_length(v.ty))

\* Optional_serialize putting a presence byte before the value
Optional_serialize_tagged(h, c, root) ==
    LET v == Optional_get(h, c, root)
    IN IF v = NoneV THEN <<0>> ELSE <<1>> \o elem_serialize(v)

\* Optional.serialize(stream): the bytes written; their count is returned
Optional_serialize(h, c, root) ==
    LET v == Optional_get(h, c, root)
    IN IF v = NoneV THEN <<>> ELSE elem_serialize(v)

\* stream.read(n): the bytes from the position on, at most n of them
stream_read(st, n) ==
    LET avail == Len(st.buf) - st.pos
        k == IF n < avail THEN n ELSE avail
    IN [i \in 1..k |-> st.buf[st.pos + i]]

\* Does Optional.deserialize return the absent instance without reading?
scope_is_empty(scope) == scope = 0

\* Optional.deserialize(stream, scope).  A fixed-length element type rejects
\* a scope that is not its byte length, then reads that many bytes.
Optional_deserialize(h, c, st, scope) ==
    IF scope_is_empty(scope) THEN Optional_new(h, c, NoneV, 0)
    ELSE IF type_byte_length(c.elem) # scope THEN Raise(h, 0, "Exception")
    ELSE Optional_new(h, c,
             ViewOf(c.elem, decode_bytes(stream_read(st, type_byte_length(c.elem)))), 0)

\* The stream after Optional.deserialize(stream, scope)
stream_after(c, st, scope) ==
    IF scope = 0 \/ type_byte_length(c.elem) # scope THEN st
    ELSE [st EXCEPT !.pos = st.pos + Len(stream_read(st, type_byte_length(c.elem)))]

(* ------------------------- byte length, keys --------------------------- *)

\* What a method that builds no node gives: the exception it raised ("none"
\* when it returned) and the integer or the value it returned.
Ret(e, n, v) == [err |-> e, n |-> n, ret |-> v]

\* View.value_byte_length() of a list of bits: its bits and the delimiting bit
elem_value_byte_length(v) == (bits_length(v) \div 8) + 1

\* Optional.value_byte_length().  el is looked up in the module's globals when
\* the branch that uses it runs.
Optional_value_byte_length(h, c, root) ==
    IF length(h, root) = 0 THEN Ret("none", 0, NoneV)
    ELSE IF is_fixed_byte_length(c.elem)
    THEN Ret("none", type_byte_length(c.elem), NoneV)
    ELSE IF ~name_bound("el") THEN Ret("NameError", 0, NoneV)
    ELSE Ret("none", elem_value_byte_length(super_get(h, c, root, 0)), NoneV)

\* out_of_range letting the limit itself through
out_of_range_above_limit(c, key) == key.val > c.limit

\* navigate_type and key_to_static_gindex: key >= cls.limit()
out_of_range(c, key) == key.val >= c.limit

\* MonoSubtreeView.navigate_type(key), reached as super().navigate_type(key)
super_navigate_type(c, key) ==
    IF key.val < 0 THEN Ret("KeyError", 0, NoneV) ELSE Ret("none", 0, TypeArg(c.elem))

\* Optional.navigate_type(key); a string does not compare with the limit
Optional_navigate_type(c, key) ==
    IF key.ty = "str" THEN Ret("TypeError", 0, NoneV)
    ELSE IF out_of_range(c, key) THEN Ret("KeyError", 0, NoneV)
    ELSE super_navigate_type(c, key)

\* MonoSubtreeView.key_to_static_gindex(key)
super_key_to_static_gindex(c, key) ==
    IF key.val < 0 THEN Ret("KeyError", 0, NoneV)
    ELSE IF c.packed
    THEN Ret("none", lib_to_gindex(key.val \div (BYTES_PER_CHUNK
                        \div type_byte_length(c.elem)), tree_depth(c)), NoneV)
    ELSE Ret("none", lib_to_gindex(key.val, tree_depth(c)), NoneV)

\* Optional.key_to_static_gindex(key).  RIGHT_GINDEX is looked up in the
\* module's globals when the line that uses it runs; it names the right
\* child of the root.
Optional_key_to_static_gindex(c, key) ==
    IF key = IsSomeKey
    THEN IF ~name_bound("RIGHT_GINDEX") THEN Ret("NameError", 0, NoneV)
         ELSE Ret("none", 3, NoneV)
    ELSE IF out_of_range(c, key) THEN Ret("KeyError", 0, NoneV)
    ELSE super_key_to_static_gindex(c, key)

(* ------------------------------ state ---------------------------------- *)

\* cls      the specialization Optional[T] in use, NoCls before there is one
\* heap     the nodes allocated so far; a node's id is its index
\* backing  each view's root node, 0 while the view does not exist
\* stream   the byte stream of the last serialize with the read position, and
\*          src, the value that was serialized into it
\* last     the last call: its arguments, its outcome, the view's root and
\*          the heap's size before it, and afterClear: whether the call
\*          before it was set(None) on the same view, and ret: the value
\*          or the type it returned
\* foreign  the views whose contents were taken, unchecked, from a view of
\*          another type than T (kept to state which instances hold a T)

NoCall == [op |-> "none", view |-> "-", arg |-> NoneV, err |-> "none", n |-> 0,
           preRoot |-> 0, preHeap |-> 0, prePos |-> 0, afterClear |-> FALSE,
           ret |-> NoneV]

Call(op, x, arg, err, n) ==
    [op |-> op, view |-> x, arg |-> arg, err |-> err, n |-> n,
     preRoot |-> IF x \in Views THEN backing[x] ELSE 0, preHeap |-> Len(heap),
     prePos |-> stream.pos,
     afterClear |-> last.op = "set" /\ last.arg = NoneV /\ last.view = x,
     ret |-> NoneV]

\* A recorded call of a method that returns a value or a type
CallRet(op, x, arg, r) == [Call(op, x, arg, r.err, r.n) EXCEPT !.ret = r.ret]

Init ==
    /\ cls = NoCls
    /\ heap = <<RootNode(ljust(<<>>))>>
    /\ backing = [x \in Views |-> 0]
    /\ stream = [buf |-> <<>>, pos |-> 0, src |-> NoneV]
    /\ last = NoCall
    /\ foreign = {}

\* Optional[element_type]
Specialize(element_type) ==
    /\ cls = NoCls
    /\ IF invalid_element_type(element_type)
       THEN /\ last' = Call("specialize", "-", TypeArg(element_type), "Exception", 0)
            /\ cls' = cls
       ELSE /\ last' = Call("specialize", "-", TypeArg(element_type), "none", 0)
            /\ cls' = SpecialOptionView(element_type)
    /\ UNCHANGED <<heap, backing, stream, foreign>>

\* x = cls(value)
New(x, value) ==
    /\ cls # NoCls
    /\ backing[x] = 0
    /\ LET r == Optional_new(heap, cls, value, 0)
       IN /\ Len(r.heap) <= MaxNodes
          /\ heap' = r.heap
          /\ backing' = [backing EXCEPT ![x] = r.root]
          /\ last' = Call("new", x, value, r.err, 0)
          /\ foreign' = IF r.err = "none" /\ value.view /\ value.ty # cls.elem
                        THEN foreign \cup {x} ELSE foreign
    /\ UNCHANGED <<cls, stream>>

\* x = cls(value, backing=y.get_backing()); the call's n is the root given
FromBacking(x, y, value) ==
    /\ cls # NoCls
    /\ backing[x] = 0
    /\ backing[y] # 0
    /\ LET r == Optional_new(heap, cls, value, backing[y])
       IN /\ heap' = r.heap
          /\ backing' = [backing EXCEPT ![x] = r.root]
          /\ last' = Call("from_backing", x, value, r.err, backing[y])
          /\ foreign' = IF r.err = "none" /\ y \in foreign
                        THEN foreign \cup {x} ELSE foreign
    /\ UNCHANGED <<cls, stream>>

\* x.set(v); set_backing leaves x with the root the call built
Set(x, v) ==
    /\ cls # NoCls
    /\ backing[x] # 0
    /\ LET r == Optional_set(heap, cls, backing[x], v)
       IN /\ Len(r.heap) <= MaxNodes
          /\ heap' = r.heap
          /\ backing' = [backing EXCEPT ![x] = r.root]
          /\ last' = Call("set", x, v, r.err, 0)
          /\ foreign' = IF r.err = "none" /\ v # NoneV
                        THEN foreign \ {x} ELSE foreign
    /\ UNCHANGED <<cls, stream>>

\* x.serialize(stream) on a fresh stream; the call's n is the count returned
Serialize(x) ==
    /\ cls # NoCls
    /\ backing[x] # 0
    /\ LET out == Optional_serialize(heap, cls, backing[x])
       IN /\ stream' = [buf |-> out, pos |-> 0,
                         src |-> Optional_get(heap, cls, backing[x])]
          /\ last' = Call("serialize", x, NoneV, "none", Len(out))
    /\ UNCHANGED <<cls, heap, backing, foreign>>

\* x = cls.deserialize(stream, scope); the call's n is the scope
Deserialize(x, scope) ==
    /\ cls # NoCls
    /\ backing[x] = 0
    /\ LET r == Optional_deserialize(heap, cls, stream, scope)
       IN /\ Len(r.heap) <= MaxNodes
          /\ heap' = r.heap
          /\ backing' = [backing EXCEPT ![x] = r.root]
          /\ last' = Call("deserialize", x, NoneV, r.err, scope)
    /\ stream' = stream_after(cls, stream, scope)
    /\ UNCHANGED <<cls, foreign>>

Next ==
    \/ \E element_type \in ElemTypes : Specialize(element_type)
    \/ \E x \in Views, value \in Inputs \cup {NoneV} : New(x, value)
    \/ \E x \in Views, y \in Views, value \in Inputs \cup {NoneV} :
           FromBacking(x, y, value)
    \/ \E x \in Views, v \in Inputs \cup {NoneV} : Set(x, v)
    \/ \E x \in Views : Serialize(x)
    \/ \E x \in Views, scope \in 0..MaxScope : Deserialize(x, scope)

Spec == Init /\ [][Next]_vars

(* -------- the read-only surface, over caller-supplied backings ---------- *)

\* x = cls(backing=PairNode(v.get_backing(), uint256(n).get_backing())): the
\* caller builds the root, and with it chooses the length mixed in
Adopt(x, n, v) ==
    /\ cls # NoCls
    /\ backing[x] = 0
    /\ LET h1 == view_backing(heap, v)
           h2 == Append(h1, uint256_backing(n))
           h3 == Append(h2, PairNode(Len(h1), Len(h2)))
           r == Optional_new(h3, cls, NoneV, Len(h3))
       IN /\ Len(r.heap) <= MaxNodes
          /\ heap' = r.heap
          /\ backing' = [backing EXCEPT ![x] = r.root]
          /\ last' = Call("adopt", x, v, r.err, n)
    /\ UNCHANGED <<cls, stream, foreign>>

\* x.length(); the call's n is the integer returned
Length(x) ==
    /\ cls # NoCls
    /\ backing[x] # 0
    /\ last' = Call("length", x, NoneV, "none", length(heap, backing[x]))
    /\ UNCHANGED <<cls, heap, backing, stream, foreign>>

\* x.get(); the call's ret is the value returned
Get(x) ==
    /\ cls # NoCls
    /\ backing[x] # 0
    /\ last' = CallRet("get", x, NoneV,
                       Ret("none", 0, Optional_get(heap, cls, backing[x])))
    /\ UNCHANGED <<cls, heap, backing, stream, foreign>>

\* x.value_byte_length(); the call's n is the integer returned
ValueByteLength(x) ==
    /\ cls # NoCls
    /\ backing[x] # 0
    /\ last' = CallRet("value_byte_length", x, NoneV,
                       Optional_value_byte_length(heap, cls, backing[x]))
    /\ UNCHANGED <<cls, heap, backing, stream, foreign>>

\* cls.navigate_type(key); the call's ret is the type returned
NavigateType(key) ==
    /\ cls # NoCls
    /\ last' = CallRet("navigate_type", "-", key, Optional_navigate_type(cls, key))
    /\ UNCHANGED <<cls, heap, backing, stream, foreign>>

\* cls.key_to_static_gindex(key); the call's n is the index returned
KeyToStaticGindex(key) ==
    /\ cls # NoCls
    /\ last' = CallRet("key_to_static_gindex", "-", key,
                       Optional_key_to_static_gindex(cls, key))
    /\ UNCHANGED <<cls, heap, backing, stream, foreign>>

NextQueries ==
    \/ \E element_type \in ElemTypes \cup VarElemTypes : Specialize(element_type)
    \/ \E x \in Views, value \in ViewsOfType(cls.elem) \cup {NoneV} : New(x, value)
    \/ \E x \in Views, n \in 0..MaxLength, v \in ViewsOfType(cls.elem) :
           Adopt(x, n, v)
    \/ \E x \in Views : Length(x)
    \/ \E x \in Views : Get(x)
    \/ \E x \in Views : ValueByteLength(x)
    \/ \E key \in Keys : NavigateType(key)
    \/ \E key \in Keys : KeyToStaticGindex(key)

SpecQueries == Init /\ [][NextQueries]_vars

(* ------------------------- reading the state --------------------------- *)

len(x) == length(heap, backing[x])

val(x) == Optional_get(heap, cls, backing[x])

\* v is a value of T: a raw input T accepts, or a view of T
ValueOfT(v) ==
    /\ v # NoneV
    /\ IF v.view THEN v.ty = cls.elem ELSE coerce_ok(cls.elem, v)

\* v is an input set() turns into a value of T
Settable(v) == v # NoneV /\ (isinstance(v, cls.elem) \/ coerce_ok(cls.elem, v))

(* ------------------------------ claims --------------------------------- *)

\* C1: an instance constructed from a value v of T (the zero of T included)
\* reports length() = 1 and get() returns v.
C1_ConstructRoundTrip ==
    (last.op = "new" /\ ValueOfT(last.arg)) =>
        /\ last.err = "none"
        /\ len(last.view) = 1
        /\ val(last.view) = ViewOf(cls.elem, last.arg.val)

C1_Witness ==
    /\ last.op = "new" /\ ValueOfT(last.arg) /\ last.err = "none"
    /\ cls.elem = "uint16" /\ last.arg.val = 256
    /\ val(last.view).val = 256

\* C2: deserialize on the buffer serialize wrote, from its start and with the
\* number of bytes written as scope, yields an instance whose get() is the
\* value that was serialized; on an empty buffer with scope 0, one whose
\* get() is absent.
C2_SerializeRoundTrip ==
    (last.op = "deserialize" /\ last.prePos = 0 /\ last.n = Len(stream.buf)) =>
        /\ last.err = "none"
        /\ val(last.view) = stream.src

C2_Witness ==
    /\ last.op = "deserialize" /\ last.prePos = 0 /\ last.n = Len(stream.buf)
    /\ last.n = 2
    /\ val(last.view) = ViewOf("uint16", 256)

\* C3: set(absent) followed by set(v) on the same instance leaves it with
\* length() = 1 and get() = v, whatever its state before.
C3_ClearThenSet ==
    (last.op = "set" /\ last.afterClear /\ Settable(last.arg)) =>
        /\ last.err = "none"
        /\ len(last.view) = 1
        /\ val(last.view) = ViewOf(cls.elem, last.arg.val)

\* C4: the length child of every instance decodes to 0 or 1.
C4_LengthZeroOrOne ==
    \A x \in Views : backing[x] # 0 => len(x) \in {0, 1}

C4_Witness ==
    /\ last.op = "set" /\ last.err = "none" /\ last.arg # NoneV
    /\ len(last.view) = 1
    /\ \E y \in Views : backing[y] # 0 /\ len(y) = 0

\* The contents child of x is the all-zero chunk.
ContentsZero(x) == Tree(heap, heap[backing[x]].left) = Tree(heap, zero_node(0))

\* The contents child of x is the chunk that encodes the value get() returns:
\* a leaf holding that value's bytes, zero from there on.
ContentsEncodeValue(x) ==
    /\ heap[heap[backing[x]].left].kind = "root"
    /\ heap[heap[backing[x]].left].root =
           ljust(encode_bytes(val(x).val, type_byte_length(cls.elem)))

C6_OverwriteInPlace ==
    (last.op = "set" /\ Settable(last.arg) /\ length(heap, last.preRoot) = 1) =>
        /\ last.err = "none"
        /\ len(last.view) = 1
        /\ val(last.view) = ViewOf(cls.elem, last.arg.val)
        /\ heap[backing[last.view]].right = heap[last.preRoot].right
        /\ heap[backing[last.view]].left # heap[last.preRoot].left
        /\ backing[last.view] # last.preRoot

C6_Witness ==
    /\ last.op = "set" /\ Settable(last.arg) /\ length(heap, last.preRoot) = 1
    /\ last.err = "none"
    /\ val(last.view) # Optional_get(heap, cls, last.preRoot)

\* C7: set(absent) on an instance whose length() is 0 is a no-op: the root
\* after the call is the root before it and no node was allocated.
C7_IdempotentClear ==
    (last.op = "set" /\ last.arg = NoneV /\ length(heap, last.preRoot) = 0) =>
        /\ last.err = "none"
        /\ backing[last.view] = last.preRoot
        /\ Len(heap) = last.preHeap

C7_Witness ==
    /\ last.op = "set" /\ last.arg = NoneV /\ length(heap, last.preRoot) = 0
    /\ last.afterClear

\* C8: an instance constructed from absent has length() = 0, the shared zero
\* node of depth 0 as its contents child, and a root equal to default_node().
C8_CanonicalAbsence ==
    (last.op = "new" /\ last.arg = NoneV) =>
        /\ last.err = "none"
        /\ len(last.view) = 0
        /\ heap[backing[last.view]].left = zero_node(0)
        /\ Tree(heap, backing[last.view]) = default_node(heap, cls)

C8_Witness ==
    /\ last.op = "new" /\ last.arg = NoneV /\ last.err = "none"
    /\ val(last.view) = NoneV

\* C9: set(absent) on a present instance leaves length() = 0, get() absent
\* and a root equal to default_node().
C9_ClearCanonical ==
    (last.op = "set" /\ last.arg = NoneV /\ length(heap, last.preRoot) = 1) =>
        /\ last.err = "none"
        /\ len(last.view) = 0
        /\ val(last.view) = NoneV
        /\ Tree(heap, backing[last.view]) = default_node(heap, cls)

\* C10: a set on one instance changes no node that existed before it, and
\* leaves the root, length() and get() of every other instance as they were.
C10_CopyOnWrite ==
    [][last'.op = "set" =>
          /\ Len(heap') >= Len(heap)
          /\ \A n \in 1..Len(heap) : heap'[n] = heap[n]
          /\ \A y \in Views : (backing[y] # 0 /\ y # last'.view) =>
                 /\ backing'[y] = backing[y]
                 /\ length(heap', backing'[y]) = length(heap, backing[y])
                 /\ Optional_get(heap', cls', backing'[y])
                        = Optional_get(heap, cls, backing[y])]_vars

C10_Witness ==
    /\ last.op = "set" /\ last.err = "none"
    /\ backing[last.view] # last.preRoot
    /\ \E y \in Views :
           /\ y # last.view /\ backing[y] = last.preRoot
           /\ val(y) # val(last.view)

\* C11: specializing Optional for an element type whose min_byte_length()
\* is 0 fails, leaving no specialization and no instance; for every element
\* type whose min_byte_length() is positive it succeeds.
C11_RejectsZeroLength ==
    last.op = "specialize" =>
        IF min_byte_length(last.arg.ty) = 0
        THEN /\ last.err # "none"
             /\ cls = NoCls
             /\ \A x \in Views : backing[x] = 0
        ELSE /\ last.err = "none"
             /\ cls.elem = last.arg.ty

C11_Witness ==
    /\ last.op = "specialize" /\ last.arg.ty = "List[uint8,1]"
    /\ last.err = "Exception"

\* The bytes the last deserialize took from the stream.
Consumed == stream.pos - last.prePos

\* C12: deserialize with a positive scope fails, and returns no instance,
\* whenever decoding the value consumes a number of bytes other than scope.
C12_ScopeMismatch ==
    (last.op = "deserialize" /\ last.n > 0 /\ Consumed # last.n) =>
        /\ last.err # "none"
        /\ backing[last.view] = 0

\* C13: construction with both a value and a backing fails and creates no
\* instance; construction with a backing alone adopts that root unchanged.
C13_ValueOrBacking ==
    last.op = "from_backing" =>
        IF last.arg # NoneV
        THEN /\ last.err # "none"
             /\ backing[last.view] = 0
             /\ Len(heap) = last.preHeap
        ELSE /\ last.err = "none"
             /\ backing[last.view] = last.n
             /\ Len(heap) = last.preHeap

C13_Witness ==
    /\ last.op = "from_backing" /\ last.arg # NoneV
    /\ last.err = "Exception"
    /\ \E y \in Views : backing[y] = last.n /\ len(y) = 1

\* C16: serialize on an absent instance writes no byte and returns 0; on a
\* present one it writes the bytes of T's serializer for the value held,
\* with nothing before or after them, and returns their count.
C16_SerializeBytes ==
    last.op = "serialize" =>
        /\ last.err = "none"
        /\ last.n = Len(stream.buf)
        /\ IF len(last.view) = 0
           THEN stream.buf = <<>>
           ELSE /\ stream.buf = elem_serialize(val(last.view))
                /\ last.n = type_byte_length(cls.elem)

C16_Witness ==
    /\ last.op = "serialize" /\ len(last.view) = 1
    /\ stream.buf = <<0, 1>>

\* C17: a specialization has limit() = 1, contents_depth() = 0,
\* tree_depth() = 1, element_cls() = T, and is_packed() true exactly when T
\* is a basic type.
C17_Descriptor ==
    cls # NoCls =>
        /\ cls.limit = 1
        /\ cls.contents_depth = 0
        /\ tree_depth(cls) = 1
        /\ cls.elem \in ElemTypes
        /\ cls.packed <=> is_basic_type(cls.elem)

\* C18: set(v) with an input that cannot be coerced to T fails with the
\* coercion's error, on an absent and on a present instance alike, and
\* leaves the instance's root, and so its length() and get(), as they were.
C18_CoercionFailure ==
    (last.op = "set" /\ last.arg # NoneV /\ ~Settable(last.arg)) =>
        /\ last.err = "ValueError"
        /\ backing[last.view] = last.preRoot
        /\ Len(heap) = last.preHeap

C18_Witness ==
    /\ last.op = "set" /\ last.arg # NoneV /\ ~Settable(last.arg)
    /\ last.err = "ValueError"
    /\ len(last.view) = 1
    /\ \E y \in Views : backing[y] # 0 /\ len(y) = 0

\* C20: set(absent) on a present instance replaces the node at generalized
\* index 2, runs the body of the upward walk zero times and summarizes at
\* generalized index 2, not at the root (1) nor at the length child (3).
C20_ClearAtContents ==
    (last.op = "set" /\ last.arg = NoneV /\ length(heap, last.preRoot) = 1) =>
        /\ last.err = "none"
        /\ lib_to_gindex(0, tree_depth(cls)) = 2
        /\ summarize_steps(lib_to_gindex(0, tree_depth(cls))) = 0
        /\ summarize_target(lib_to_gindex(0, tree_depth(cls))) = 2

\* C14: navigate_type(key) and key_to_static_gindex(key) succeed for the
\* integer key 0 alone; every other integer key, negative ones included,
\* fails with the error of a key out of range.
C14_OnlyKeyZero ==
    (last.op \in {"navigate_type", "key_to_static_gindex"} /\ last.arg.ty = "int") =>
        IF last.arg.val = 0
        THEN /\ last.err = "none"
             /\ last.op = "navigate_type" => last.ret = TypeArg(cls.elem)
             /\ last.op = "key_to_static_gindex" => last.n = 2
        ELSE last.err = "KeyError"

C14_Witness ==
    /\ last.op = "key_to_static_gindex" /\ last.arg = IntKey(0 - 1)
    /\ last.err = "KeyError"

\* C15: value_byte_length() returns 0 for an absent instance, T's byte
\* length for a present one of a fixed-length T, and for a present one of a
\* variable-length T the byte length of the value held, never an error.
C15_ValueByteLength ==
    last.op = "value_byte_length" =>
        /\ last.err = "none"
        /\ last.n = IF len(last.view) = 0 THEN 0
                    ELSE IF is_fixed_byte_length(cls.elem)
                    THEN type_byte_length(cls.elem)
                    ELSE elem_value_byte_length(val(last.view))

\* C19: length() returns 0 or 1 and nothing else: on an instance whose length
\* child decodes to another integer, length() and get() fail.
C19_MalformedRejected ==
    (last.op \in {"length", "get"} /\ len(last.view) \notin {0, 1}) =>
        last.err # "none"

====
